---- MODULE Spec2Model ----
(***************************************************************************)
(* Customer / Order demo service.  Two programs are modelled:              *)
(*   variant "app"        src/app.py        (one Session per handler,      *)
(*                                           in-memory SQLite)             *)
(*   variant "copiloting" src/copiloting.py (one process-wide Session,     *)
(*                                           delete-by-id for Customer)    *)
(* A table is a function from rowid to the row's other columns.  The text  *)
(* columns of a row (name, address, email / name, cost) are abstracted to  *)
(* one value; ids are integers and keep SQLite's rowid rules.  A handler's *)
(* result is what the handler returns or raises.  copiloting.py keeps its  *)
(* tables in a file; the model starts it on a new file.                    *)
(***************************************************************************)
EXTENDS Integers, Sequences, FiniteSets, TLC

(* ---- bounds ---- *)
NumSeedCustomers == 3      \* customers inserted when the process starts (10 in the source)
OrdersPerCustomer == 1     \* orders seeded per customer by app.py (3 in the source)
MaxNewCustomers == 2       \* rowids a customers table may grow beyond the seeded ones
MaxNewOrders == 1          \* rowids the orders table may grow beyond the seeded ones

\* Python's None for an optional integer: a value outside every id, offset and
\* limit the model uses; it is tested for before any arithmetic.
None == -99
NumSeedOrders == NumSeedCustomers * OrdersPerCustomer
MaxCustomerId == NumSeedCustomers + MaxNewCustomers
MaxOrderId == NumSeedOrders + MaxNewOrders

\* ids the clients send: one below every seeded id and the first unseeded one
\* (app.py); the last seeded and the first unseeded one (copiloting.py)
CustomerIds == {0, NumSeedCustomers + 1}
OrderIds == {NumSeedOrders + 1}
CopilotingIds == {NumSeedCustomers, NumSeedCustomers + 1}
\* (offset, limit) pairs of the list-customers queries
Pages == {<<None, None>>, <<2, 3>>, <<-1, 0>>, <<2, -1>>, <<1, None>>}
\* column contents (name, address, email / name, cost) of the payloads: the
\* seeded rows and the create payloads carry one value, the update payloads
\* another one
SeedFields == 1
CreateFields == {1}
UpdateFields == {2}
\* worker threads of the copiloting variant's thread pool
Requests == {"r1", "r2"}

VARIABLES variant, customers, orders, insertion, issued, reused, created, req, pending, sessionOpen, last

vars == <<variant, customers, orders, insertion, issued, reused, created, req, pending, sessionOpen, last>>

(* ---- storage engine (SQLite through SQLAlchemy) ---- *)
SetMax(S) == CHOOSE x \in S : \A y \in S : y <= x

\* (variant of NextRowid: hands out the largest rowid in use again)
NextRowid_reuse(t) == IF DOMAIN t = {} THEN 1 ELSE SetMax(DOMAIN t)

\* INTEGER PRIMARY KEY without AUTOINCREMENT: one more than the largest rowid
\* currently in the table, 1 for an empty table.
NextRowid(t) == IF DOMAIN t = {} THEN 1 ELSE SetMax(DOMAIN t) + 1

\* Rowids of a full-table scan without ORDER BY: the rowid b-tree, ascending.
SetMin(S) == CHOOSE x \in S : \A y \in S : x <= y

ScanIds(S) ==
    IF S = {} THEN <<>>
    ELSE LET lo == SetMin(S)
             hi == SetMax(S)
         IN SelectSeq([i \in 1..(hi - lo + 1) |-> lo + i - 1], LAMBDA x : x \in S)

Insert(t, id, row) == [i \in DOMAIN t \cup {id} |-> IF i = id THEN row ELSE t[i]]

Remove(t, id) == [i \in DOMAIN t \ {id} |-> t[i]]

\* (variant of LimitOffset: the window starts one row late)
LimitOffset_late(s, l, o) ==
    LET skip == IF o < 0 THEN 1 ELSE o + 1
        rest == IF skip >= Len(s) THEN <<>> ELSE SubSeq(s, skip + 1, Len(s))
    IN IF l < 0 \/ l >= Len(rest) THEN rest ELSE SubSeq(rest, 1, l)

\* LIMIT l OFFSET o as SQLite evaluates it: a negative OFFSET counts as 0 and
\* a negative LIMIT means no upper bound.
LimitOffset(s, l, o) ==
    LET skip == IF o < 0 THEN 0 ELSE o
        rest == IF skip >= Len(s) THEN <<>> ELSE SubSeq(s, skip + 1, Len(s))
    IN IF l < 0 \/ l >= Len(rest) THEN rest ELSE SubSeq(rest, 1, l)

CustomerRow(t, id) == [id |-> id, fields |-> t[id]]

OrderRow(t, id) == [id |-> id, customer_id |-> t[id].customer_id, fields |-> t[id].fields]

\* Session.merge followed by commit: a payload without primary key becomes a
\* new pending object and is INSERTed under a fresh rowid; with a primary key
\* the row of that key is overwritten, or inserted when it is absent.
Merge(t, id, row) == IF id = None THEN Insert(t, NextRowid(t), row) ELSE Insert(t, id, row)

MergedId(t, id) == IF id = None THEN NextRowid(t) ELSE id

\* Session.get: a point lookup; a NULL primary key loads nothing.
Get(t, id) == IF id # None /\ id \in DOMAIN t THEN id ELSE None

(* ---- results of the handlers ---- *)
Result(op, id, kind, rows, ords) ==
    [op |-> op, id |-> id, fields |-> None, offset |-> None, limit |-> None,
     kind |-> kind, rows |-> rows, orders |-> ords]

NoResult == Result("none", None, "none", <<>>, <<>>)

(* ---- seeding ---- *)
SeedCustomers == [i \in 1..NumSeedCustomers |-> SeedFields]

SeedOrders == [i \in 1..NumSeedOrders |->
                 [customer_id |-> ((i - 1) \div OrdersPerCustomer) + 1, fields |-> SeedFields]]

IdleRequest == [pc |-> "idle", op |-> "none", id |-> None, fields |-> SeedFields]

Init ==
    /\ variant \in {"app", "copiloting"}
    /\ customers = SeedCustomers
    /\ orders = IF variant = "app" THEN SeedOrders ELSE <<>>
    /\ insertion = [i \in 1..NumSeedCustomers |-> i]
    /\ issued = 1..NumSeedCustomers
    /\ reused = FALSE
    /\ created = {}
    /\ req = [r \in Requests |-> IdleRequest]
    /\ pending = <<>>
    /\ sessionOpen = FALSE
    /\ last = NoResult

\* history of the customers table: the order in which its present rows were
\* inserted, every id a row ever had, whether an id was given to a second row,
\* and (created) the ids create-customer returned whose rows were not deleted.
\* TrackInsert is the bookkeeping of a merge into table t under id.
TrackInsert(t, id) ==
    /\ insertion' = IF id \in DOMAIN t THEN insertion ELSE Append(insertion, id)
    /\ issued' = issued \cup {id}
    /\ reused' = (reused \/ (id \notin DOMAIN t /\ id \in issued))

(* ---- src/app.py: each handler is a coroutine without await, so it runs ---- *)
(* ---- from "with Session(engine)" to its return as one step            ---- *)

get_customers_rows(t, offset, limit) ==
    LET o == IF offset = None THEN 0 ELSE offset
        l == IF limit = None THEN 0 ELSE limit
        scan == ScanIds(DOMAIN t)
        ids == IF l = 0 THEN LimitOffset(scan, -1, o) ELSE LimitOffset(scan, l, o)
    IN [i \in 1..Len(ids) |-> CustomerRow(t, ids[i])]

get_customers(offset, limit) ==
    /\ variant = "app"
    /\ last' = [Result("get_customers", None, "rows", get_customers_rows(customers, offset, limit), <<>>)
                  EXCEPT !.offset = offset, !.limit = limit]
    /\ UNCHANGED <<variant, created, customers, orders, insertion, issued, reused, req, pending, sessionOpen>>

\* (variant of get_customer_by_id_result: a miss is an empty result, no error)
get_customer_by_id_result_null(t, id) ==
    IF Get(t, id) # None
    THEN Result("get_customer_by_id", id, "row", <<CustomerRow(t, id)>>, <<>>)
    ELSE Result("get_customer_by_id", id, "Null", <<>>, <<>>)

get_customer_by_id_result(t, id) ==
    IF Get(t, id) # None
    THEN Result("get_customer_by_id", id, "row", <<CustomerRow(t, id)>>, <<>>)
    ELSE Result("get_customer_by_id", id, "NotFound", <<>>, <<>>)

get_customer_by_id(id) ==
    /\ variant = "app"
    /\ last' = get_customer_by_id_result(customers, id)
    /\ UNCHANGED <<variant, created, customers, orders, insertion, issued, reused, req, pending, sessionOpen>>

create_customer(f) ==
    /\ variant = "app"
    /\ NextRowid(customers) <= MaxCustomerId
    /\ LET id == NextRowid(customers) IN
        /\ customers' = Insert(customers, id, f)
        /\ insertion' = Append(insertion, id)
        /\ issued' = issued \cup {id}
        /\ reused' = (reused \/ id \in issued)
        /\ created' = created \cup {id}
        /\ last' = Result("create_customer", None, "row", <<CustomerRow(customers', id)>>, <<>>)
    /\ UNCHANGED <<variant, orders, req, pending, sessionOpen>>

\* (variant of update_customer_store: update only, an absent id is left absent)
update_customer_store_only(t, id, f) == IF Get(t, id) # None THEN Insert(t, id, f) ELSE t

\* the customers table after merge + commit of the payload
update_customer_store(t, id, f) == Merge(t, id, f)

\* (variant of update_customer_orders: the customer's orders go with the update)
update_customer_orders_cascade(o, id) == [i \in {j \in DOMAIN o : o[j].customer_id # id} |-> o[i]]

\* the orders table after update_customer of customer id: the merge carries
\* the customer's columns only and no statement touches the orders
update_customer_orders(o, id) == o

\* sesh.get(Customer, customer.id) on the payload object, whose id merge leaves as sent
update_customer_result(t, id) ==
    IF Get(t, id) # None
    THEN Result("update_customer", id, "row", <<CustomerRow(t, id)>>, <<>>)
    ELSE Result("update_customer", id, "Null", <<>>, <<>>)

update_customer(id, f) ==
    /\ variant = "app"
    /\ MergedId(customers, id) <= MaxCustomerId
    /\ customers' = update_customer_store(customers, id, f)
    /\ orders' = update_customer_orders(orders, id)
    /\ TrackInsert(customers, MergedId(customers, id))
    /\ last' = [update_customer_result(customers', id) EXCEPT !.fields = f]
    /\ UNCHANGED <<variant, created, req, pending, sessionOpen>>

AllOrders(o) == LET ids == ScanIds(DOMAIN o) IN [i \in 1..Len(ids) |-> OrderRow(o, ids[i])]

get_orders ==
    /\ variant = "app"
    /\ last' = Result("get_orders", None, "rows", <<>>, AllOrders(orders))
    /\ UNCHANGED <<variant, created, customers, orders, insertion, issued, reused, req, pending, sessionOpen>>

get_order_by_id(id) ==
    /\ variant = "app"
    /\ last' = IF Get(orders, id) # None
               THEN Result("get_order_by_id", id, "row", <<>>, <<OrderRow(orders, id)>>)
               ELSE Result("get_order_by_id", id, "NotFound", <<>>, <<>>)
    /\ UNCHANGED <<variant, created, customers, orders, insertion, issued, reused, req, pending, sessionOpen>>

\* INSERT into orders; PRAGMA foreign_keys is never switched on, so SQLite
\* does not look at the customers table
create_order_store(o, c, customer_id, f) ==
    Insert(o, NextRowid(o), [customer_id |-> customer_id, fields |-> f])

create_order(customer_id, f) ==
    /\ variant = "app"
    /\ NextRowid(orders) <= MaxOrderId
    /\ orders' = create_order_store(orders, customers, customer_id, f)
    /\ last' = Result("create_order", None, "row", <<>>, <<OrderRow(orders', NextRowid(orders))>>)
    /\ UNCHANGED <<variant, created, customers, insertion, issued, reused, req, pending, sessionOpen>>

update_order(id, customer_id, f) ==
    /\ variant = "app"
    /\ MergedId(orders, id) <= MaxOrderId
    /\ orders' = Merge(orders, id, [customer_id |-> customer_id, fields |-> f])
    /\ last' = IF Get(orders', id) # None
               THEN Result("update_order", id, "row", <<>>, <<OrderRow(orders', id)>>)
               ELSE Result("update_order", id, "Null", <<>>, <<>>)
    /\ UNCHANGED <<variant, created, customers, insertion, issued, reused, req, pending, sessionOpen>>

\* (variant of get_customer_orders_rows: the filter compares the order's own id)
get_customer_orders_rows_by_order_id(o, id) ==
    SelectSeq(AllOrders(o), LAMBDA row : row.id = id)

\* select(Order).where(Order.customer_id == id)
get_customer_orders_rows(o, id) ==
    SelectSeq(AllOrders(o), LAMBDA row : row.customer_id = id)

get_customer_orders(id) ==
    /\ variant = "app"
    /\ last' = Result("get_customer_orders", id, "rows", <<>>, get_customer_orders_rows(orders, id))
    /\ UNCHANGED <<variant, created, customers, orders, insertion, issued, reused, req, pending, sessionOpen>>

\* select(Customer).where(Customer.id == id) with selectinload(Customer.orders):
\* the customers matching, then the orders whose customer_id is IN the ids of
\* the customers loaded; first() of the customers, with its orders attached
get_customer_with_orders_result(t, o, id) ==
    LET found == SelectSeq(get_customers_rows(t, None, None), LAMBDA row : row.id = id)
        loaded == {found[i].id : i \in 1..Len(found)}
        related == SelectSeq(AllOrders(o), LAMBDA row : row.customer_id \in loaded)
    IN IF found = <<>>
       THEN Result("get_customer_with_orders", id, "Null", <<>>, <<>>)
       ELSE Result("get_customer_with_orders", id, "row", <<found[1]>>,
                   SelectSeq(related, LAMBDA row : row.customer_id = found[1].id))

get_customer_with_orders(id) ==
    /\ variant = "app"
    /\ last' = get_customer_with_orders_result(customers, orders, id)
    /\ UNCHANGED <<variant, created, customers, orders, insertion, issued, reused, req, pending, sessionOpen>>

AppNext ==
    \/ \E page \in Pages : get_customers(page[1], page[2])
    \/ \E id \in CustomerIds : get_customer_by_id(id)
    \/ \E f \in CreateFields : create_customer(f)
    \/ \E id \in CustomerIds \cup {None}, f \in UpdateFields : update_customer(id, f)
    \/ get_orders
    \/ \E id \in OrderIds : get_order_by_id(id)
    \/ \E c \in CustomerIds, f \in CreateFields : create_order(c, f)
    \/ \E id \in OrderIds \cup {None}, c \in CustomerIds, f \in UpdateFields : update_order(id, c, f)
    \/ \E id \in CustomerIds : get_customer_orders(id)
    \/ \E id \in CustomerIds : get_customer_with_orders(id)

(* ---- src/copiloting.py: handlers are plain functions, run by worker  ---- *)
(* ---- threads that all use the one module-level Session              ---- *)

\* rows the Session holds as pending (session.add, not yet flushed) get the
\* next rowids in the order they were added
FlushIds(t, p) == [k \in 1..Len(p) |-> NextRowid(t) + k - 1]

Flush(t, p) ==
    LET ids == FlushIds(t, p)
        new == {ids[k] : k \in 1..Len(p)}
    IN [i \in DOMAIN t \cup new |->
          IF i \in new THEN req[p[CHOOSE k \in 1..Len(p) : ids[k] = i]].fields ELSE t[i]]

\* each request whose row was flushed learns the row's id
AssignIds(t, p) ==
    LET ids == FlushIds(t, p)
    IN [q \in Requests |->
          LET mine == {k \in 1..Len(p) : p[k] = q}
          IN IF mine = {} THEN req[q] ELSE [req[q] EXCEPT !.id = ids[CHOOSE k \in mine : TRUE]]]

\* a statement of request r on the shared Session: when it flushes, every
\* pending row is written; r goes on as next
Statement(flushes, r, next) ==
    LET p == IF flushes THEN pending ELSE <<>>
        ids == FlushIds(customers, p)
        new == {ids[k] : k \in 1..Len(p)}
    IN /\ pending' = IF flushes THEN <<>> ELSE pending
       /\ issued' = issued \cup new
       /\ reused' = (reused \/ (new \cap issued # {}))
       /\ req' = [AssignIds(customers, p) EXCEPT ![r] = next]
       /\ sessionOpen' = TRUE

Finished == [IdleRequest EXCEPT !.pc = "middleware"]

\* session.add(db_customer)
copiloting_create_customer_add(r, f) ==
    /\ variant = "copiloting"
    /\ req[r].pc = "idle"
    /\ NextRowid(customers) + Len(pending) <= MaxCustomerId
    /\ req' = [req EXCEPT ![r] = [pc |-> "added", op |-> "create_customer", id |-> None, fields |-> f]]
    /\ pending' = Append(pending, r)
    /\ sessionOpen' = TRUE
    /\ UNCHANGED <<variant, created, customers, orders, insertion, issued, reused, last>>

\* session.commit(); session.refresh(db_customer); return db_customer
copiloting_create_customer_commit(r) ==
    /\ variant = "copiloting"
    /\ req[r].pc = "added"
    /\ Statement(TRUE, r, Finished)
    /\ LET id == AssignIds(customers, pending)[r].id IN
        /\ customers' = Flush(customers, pending)
        /\ insertion' = insertion \o FlushIds(customers, pending)
        /\ created' = IF id \in DOMAIN customers' THEN created \cup {id} ELSE created
        /\ last' = IF id \in DOMAIN customers'
                   THEN Result("create_customer", None, "row", <<CustomerRow(customers', id)>>, <<>>)
                   ELSE Result("create_customer", None, "ServerError", <<>>, <<>>)
    /\ UNCHANGED <<variant, orders>>

\* session.query(Customer).all(): the query autoflushes
copiloting_get_customers(r) ==
    /\ variant = "copiloting"
    /\ req[r].pc = "idle"
    /\ Statement(TRUE, r, Finished)
    /\ customers' = Flush(customers, pending)
    /\ insertion' = insertion \o FlushIds(customers, pending)
    /\ last' = Result("get_customers", None, "rows", get_customers_rows(customers', None, None), <<>>)
    /\ UNCHANGED <<variant, created, orders>>

\* session.query(Customer).get(id): answered from the Session's identity map
\* without a flush, or by a SELECT that autoflushes first
copiloting_get_customer(r, id) ==
    /\ variant = "copiloting"
    /\ req[r].pc = "idle"
    /\ \E flushes \in BOOLEAN :
        LET p == IF flushes THEN pending ELSE <<>> IN
        /\ Statement(flushes, r, Finished)
        /\ customers' = Flush(customers, p)
        /\ insertion' = insertion \o FlushIds(customers, p)
    /\ last' = IF Get(customers', id) # None
               THEN Result("get_customer", id, "row", <<CustomerRow(customers', id)>>, <<>>)
               ELSE Result("get_customer", id, "NotFound", <<>>, <<>>)
    /\ UNCHANGED <<variant, created, orders>>

\* db_customer = session.query(Customer).get(customer_id); 404 when it is absent
Lookup(r, op, id, f) ==
    /\ variant = "copiloting"
    /\ req[r].pc = "idle"
    /\ \E flushes \in BOOLEAN :
        LET p == IF flushes THEN pending ELSE <<>> IN
        /\ Statement(flushes, r, IF Get(Flush(customers, p), id) = None THEN Finished
                                  ELSE [pc |-> "found", op |-> op, id |-> id, fields |-> f])
        /\ customers' = Flush(customers, p)
        /\ insertion' = insertion \o FlushIds(customers, p)
    /\ last' = IF Get(customers', id) = None THEN Result(op, id, "NotFound", <<>>, <<>>) ELSE last
    /\ UNCHANGED <<variant, created, orders>>

copiloting_update_customer_get(r, id, f) == Lookup(r, "update_customer", id, f)

\* setattr for every field; session.add; session.commit; session.refresh; return.
\* When another request deleted the row since the lookup, the request fails (500).
copiloting_update_customer_commit(r) ==
    /\ variant = "copiloting"
    /\ req[r].pc = "found"
    /\ req[r].op = "update_customer"
    /\ LET id == req[r].id IN
       IF id \in DOMAIN customers
       THEN /\ Statement(TRUE, r, Finished)
            /\ customers' = Insert(Flush(customers, pending), id, req[r].fields)
            /\ insertion' = insertion \o FlushIds(customers, pending)
            /\ last' = [Result("update_customer", id, "row", <<CustomerRow(customers', id)>>, <<>>)
                          EXCEPT !.fields = req[r].fields]
       ELSE /\ req' = [req EXCEPT ![r] = Finished]
            /\ last' = Result("update_customer", id, "ServerError", <<>>, <<>>)
            /\ UNCHANGED <<customers, insertion, issued, reused, pending, sessionOpen>>
    /\ UNCHANGED <<variant, created, orders>>

copiloting_delete_customer_get(r, id) == Lookup(r, "delete_customer", id, SeedFields)

\* the orders table after delete_customer: no statement touches it
delete_customer_orders(o) == o

\* session.delete(db_customer); session.commit(); return the message.
\* The commit ends the transaction and nothing is read after it.
copiloting_delete_customer_commit(r) ==
    /\ variant = "copiloting"
    /\ req[r].pc = "found"
    /\ req[r].op = "delete_customer"
    /\ LET id == req[r].id IN
       IF id \in DOMAIN customers
       THEN /\ pending' = <<>>
            /\ issued' = issued \cup {FlushIds(customers, pending)[k] : k \in 1..Len(pending)}
            /\ reused' = (reused \/ ({FlushIds(customers, pending)[k] : k \in 1..Len(pending)} \cap issued # {}))
            /\ req' = [AssignIds(customers, pending) EXCEPT ![r] = Finished]
            /\ sessionOpen' = FALSE
            /\ customers' = Remove(Flush(customers, pending), id)
            /\ insertion' = SelectSeq(insertion \o FlushIds(customers, pending), LAMBDA i : i # id)
            /\ created' = created \ {id}
            /\ last' = Result("delete_customer", id, "message", <<>>, <<>>)
       ELSE /\ req' = [req EXCEPT ![r] = Finished]
            /\ last' = Result("delete_customer", id, "ServerError", <<>>, <<>>)
            /\ UNCHANGED <<customers, insertion, issued, reused, created, pending, sessionOpen>>
    /\ orders' = delete_customer_orders(orders)
    /\ UNCHANGED variant

\* the "http" middleware after call_next: Session has no method remove, the
\* call raises AttributeError, the Session is left as it is and the response
\* of the handler is replaced by a 500
close_session(r) ==
    /\ variant = "copiloting"
    /\ req[r].pc = "middleware"
    /\ req' = [req EXCEPT ![r] = IdleRequest]
    /\ UNCHANGED <<variant, created, customers, orders, insertion, issued, reused, pending, sessionOpen, last>>

CopilotingNext ==
    \/ \E r \in Requests, f \in CreateFields : copiloting_create_customer_add(r, f)
    \/ \E r \in Requests : copiloting_create_customer_commit(r)
    \/ \E r \in Requests : copiloting_get_customers(r)
    \/ \E r \in Requests, id \in CopilotingIds : copiloting_get_customer(r, id)
    \/ \E r \in Requests, id \in CopilotingIds, f \in UpdateFields : copiloting_update_customer_get(r, id, f)
    \/ \E r \in Requests : copiloting_update_customer_commit(r)
    \/ \E r \in Requests, id \in CopilotingIds : copiloting_delete_customer_get(r, id)
    \/ \E r \in Requests : copiloting_delete_customer_commit(r)
    \/ \E r \in Requests : close_session(r)

Next == AppNext \/ CopilotingNext

Spec == Init /\ [][Next]_vars

(* ---- properties ---- *)
Range(s) == {s[i] : i \in DOMAIN s}

RowIds(rows) == [i \in 1..Len(rows) |-> rows[i].id]

Occurrences(s, x) == Cardinality({k \in DOMAIN s : s[k] = x})

InFlight(r) == req[r].pc # "idle"

\* the customers written or handed to the Session for writing
StoredCustomers == Flush(customers, pending)

\* a step in which the get-customer-by-id handler of either program ran
GetByIdStep ==
    \/ variant = "app" /\ last'.op = "get_customer_by_id"
    \/ /\ variant = "copiloting" /\ last'.op = "get_customer"
       /\ \E r \in Requests : req[r].pc = "idle" /\ req'[r].pc = "middleware"

\* C1: a record returned by create-customer has a positive id that no other
\* row of the customers table has, and a later get-customer-by-id of that id
\* (the row not having been deleted) returns a record with that id.
C1_CreatedIdPositiveUniqueStable ==
    /\ (last.op = "create_customer" /\ last.kind = "row") =>
          LET id == last.rows[1].id
          IN id > 0 /\ id \in DOMAIN customers /\ Occurrences(insertion, id) = 1
    /\ (last.op \in {"get_customer_by_id", "get_customer"} /\ last.id \in created) =>
          (last.kind = "row" /\ last.rows[1].id = last.id)

C1_Witness ==
    /\ last.op = "get_customer_by_id"
    /\ last.id \in created
    /\ Cardinality(created) = 2
    /\ 0 \in DOMAIN customers

\* C2: update-customer applied a second time in a row with the same payload
\* leaves the store as the first application left it, whatever the payload.
C2_UpdateIdempotent ==
    [][(/\ variant = "app"
        /\ last.op = "update_customer" /\ last'.op = "update_customer"
        /\ last'.id = last.id /\ last'.fields = last.fields)
       => (customers' = customers /\ orders' = orders)]_vars

\* C3: every order's customer_id is the id of a customer in the store.
C3_ReferentialIntegrity ==
    \A o \in DOMAIN orders : orders[o].customer_id \in DOMAIN customers

\* C4: an id is given to one record only, also after that record was deleted.
\* (A row is found by its id and no statement of the handlers writes the id
\* column, so the id of an existing record cannot change.)
C4_IdsNeverReused == ~reused

\* C5: update-customer never reports not-found; for a payload with an id the
\* store afterwards holds a row of that id with the payload's columns (inserted
\* when absent, overwritten when present) and the handler returns that row as
\* read back from the store.
C5_UpdateCustomerUpserts ==
    (variant = "app" /\ last.op = "update_customer") =>
        /\ last.kind # "NotFound"
        /\ last.id # None =>
              /\ last.kind = "row"
              /\ last.id \in DOMAIN customers
              /\ customers[last.id] = last.fields
              /\ last.rows = <<[id |-> last.id, fields |-> last.fields]>>

C5_Witness ==
    /\ variant = "app" /\ last.op = "update_customer"
    /\ last.id = NumSeedCustomers + 1 /\ last.id \in created
    /\ customers[last.id] = 2
    /\ 0 \in DOMAIN customers

Skip(o) == IF o = None \/ o < 0 THEN 0 ELSE o

\* C6 as claimed: list-customers returns the customers in insertion order,
\* without the first offset ones and at most limit of the rest, an absent or
\* zero limit meaning all of the rest.  (A negative offset or limit, of which
\* the claim says nothing, is read the way the store reads it.)
C6_InsertionOrder ==
    (variant = "app" /\ last.op = "get_customers") =>
        LET skip == Skip(last.offset)
            rest == IF skip >= Len(insertion) THEN <<>> ELSE SubSeq(insertion, skip + 1, Len(insertion))
            l == last.limit
            ids == IF l = None \/ l = 0 THEN rest
                   ELSE IF l < 0 THEN rest
                   ELSE IF l >= Len(rest) THEN rest ELSE SubSeq(rest, 1, l)
        IN RowIds(last.rows) = ids

\* C6 as amended: list-customers returns the customers in ascending id order:
\* the i-th record returned is the customer whose id is the (skip + i)-th
\* smallest, skip being the offset (0 when absent or negative), and the number
\* returned is the limit, or all of the rest when the limit is absent, zero or
\* negative or exceeds the rest.
C6_AscendingIdOrder ==
    (variant = "app" /\ last.op = "get_customers") =>
        LET n == Cardinality(DOMAIN customers)
            skip == Skip(last.offset)
            l == last.limit
            rest == IF n > skip THEN n - skip ELSE 0
            take == IF l = None \/ l <= 0 \/ l >= rest THEN rest ELSE l
        IN /\ Len(last.rows) = take
           /\ \A i \in 1..Len(last.rows) :
                /\ last.rows[i].id \in DOMAIN customers
                /\ last.rows[i] = CustomerRow(customers, last.rows[i].id)
                /\ Cardinality({j \in DOMAIN customers : j <= last.rows[i].id}) = skip + i

C6_Witness ==
    /\ variant = "app" /\ last.op = "get_customers"
    /\ last.offset = 2 /\ last.limit = 3
    /\ Cardinality(DOMAIN customers) >= 5
    /\ 0 \in DOMAIN customers
    /\ Len(last.rows) = 3

\* C7: for every customer in the store the orders embedded in the result of
\* get-customer-with-orders are the orders get-orders-by-customer-id returns
\* for the same id, none when the customer has none.
C7_EmbeddedOrdersAgree ==
    variant = "app" =>
        /\ \A id \in DOMAIN customers :
              LET w == get_customer_with_orders_result(customers, orders, id)
                  byId == get_customer_orders_rows(orders, id)
              IN /\ w.kind = "row" /\ w.rows[1].id = id
                 /\ Range(w.orders) = Range(byId)
                 /\ Len(w.orders) = Len(byId)
        /\ (last.op = "get_customer_with_orders" /\ last.kind = "row") =>
              Range(last.orders) = Range(get_customer_orders_rows(orders, last.id))
        /\ (last.op = "get_customer_orders" /\ last.id \in DOMAIN customers) =>
              Range(last.orders) = Range(get_customer_with_orders_result(customers, orders, last.id).orders)

C7_Witness ==
    /\ variant = "app" /\ last.op = "get_customer_with_orders"
    /\ last.kind = "row" /\ last.orders # <<>>
    /\ \E id \in DOMAIN customers : get_customer_orders_rows(orders, id) = <<>>

SessionOf(r) == IF variant = "copiloting" THEN "session" ELSE r

\* C9: no two requests in flight use the same session, and no session is open
\* when no request is in flight.
C9_SessionPerRequest ==
    /\ \A r1, r2 \in Requests :
          (r1 # r2 /\ InFlight(r1) /\ InFlight(r2)) => SessionOf(r1) # SessionOf(r2)
    /\ (\A r \in Requests : ~InFlight(r)) => ~sessionOpen

\* C10: a step of update-customer or of delete-customer leaves the orders
\* table as it was.
C10_OrdersUntouched ==
    [][(\/ variant = "app" /\ last'.op = "update_customer"
        \/ /\ variant = "copiloting" /\ last'.op = "delete_customer"
           /\ \E r \in Requests : /\ req[r].pc = "found" /\ req[r].op = "delete_customer"
                                  /\ req'[r].pc = "middleware")
       => orders' = orders]_vars

C10_Witness ==
    /\ variant = "app" /\ last.op = "update_customer" /\ last.kind = "row"
    /\ \E o \in DOMAIN orders : orders[o].customer_id = last.id
====
